---- MODULE Spec2Model ----
(***************************************************************************)
(* Model of the EPL statistics app (src/app.py): the two memoized scraping *)
(* functions fetch_epl_data / fetch_player_data, the four display          *)
(* functions, and the script main() that Streamlit re-runs on every user   *)
(* interaction.                                                            *)
(*                                                                         *)
(* A text is a sequence of one-character strings.  A cell of a DataFrame   *)
(* is a raw text, a number, or a null (None / NaN).  A DataFrame is an     *)
(* ordered list of column names and an ordered list of records, a record   *)
(* being the list of its cells in column order.                            *)
(***************************************************************************)
EXTENDS Integers, Sequences, FiniteSets, TLC

VARIABLES
    pc,       \* position of the script: idle, get, returned, raised, shown
    option,   \* the sidebar option main() is serving
    cache,    \* st.cache_data: one entry per memoized function
    net,      \* what the server does with the pending GET
    nget,     \* HTTP GETs performed by the current invocation
    path,     \* which way the current invocation ended
    table,    \* the <table> parsed out of the response of the current run
    df,       \* the DataFrame object returned to main() and handed on
    diag,     \* the st.error diagnostic emitted by the current invocation
    shown     \* the DataFrame the display function worked on

vars == <<pc, option, cache, net, nget, path, table, df, diag, shown>>

\* Largest number of data rows of a fetched table.
MaxRows == 2

---------------------------------------------------------------------------
(* Texts *)

AB == <<"A", "B">>
ABA == <<"A", "B", "A">>
LionelMessi == <<"L", "i", "o", "n", "e", "l", "M", "e", "s", "s", "i">>
LionelMessiLionelMessi == LionelMessi \o LionelMessi
Ars == <<"A", "r", "s">>

Whitespace == {" "}
Digits == {"0", "1", "2", "3", "4", "5", "6", "7", "8", "9"}

DigitVal(c) ==
    CASE c = "0" -> 0 [] c = "1" -> 1 [] c = "2" -> 2 [] c = "3" -> 3
      [] c = "4" -> 4 [] c = "5" -> 5 [] c = "6" -> 6 [] c = "7" -> 7
      [] c = "8" -> 8 [] c = "9" -> 9

\* str.strip(): leading and trailing whitespace removed.
RECURSIVE LStrip(_)
LStrip(s) ==
    IF s # <<>> /\ Head(s) \in Whitespace THEN LStrip(Tail(s)) ELSE s

RECURSIVE RStrip(_)
RStrip(s) ==
    IF s # <<>> /\ s[Len(s)] \in Whitespace
    THEN RStrip(SubSeq(s, 1, Len(s) - 1))
    ELSE s

Strip(s) == RStrip(LStrip(s))

\* str.lower() on the characters the pages use.
LowerChar(c) ==
    CASE c = "A" -> "a" [] c = "B" -> "b" [] c = "C" -> "c"
      [] c = "L" -> "l" [] c = "M" -> "m" [] c = "N" -> "n"
      [] c = "R" -> "r" [] c = "W" -> "w"
      [] OTHER -> c

Lower(s) == [i \in 1..Len(s) |-> LowerChar(s[i])]

\* str.contains(t) for a literal pattern t.
Contains(s, t) ==
    \E i \in 0..(Len(s) - Len(t)) : SubSeq(s, i + 1, i + Len(t)) = t

---------------------------------------------------------------------------
(* Cells and DataFrames *)

Text(s) == [kind |-> "text", text |-> s, num |-> 0]
Num(n) == [kind |-> "num", text |-> <<>>, num |-> n]
Null == [kind |-> "null", text |-> <<>>, num |-> 0]

\* pd.DataFrame()
EmptyDataFrame == [cols |-> <<>>, recs |-> <<>>]

\* DataFrame.empty: some axis has length zero.
IsEmpty(d) == Len(d.cols) = 0 \/ Len(d.recs) = 0

HasColumn(d, c) == \E j \in 1..Len(d.cols) : d.cols[j] = c

ColumnIndex(d, c) == CHOOSE j \in 1..Len(d.cols) : d.cols[j] = c

Range(s) == {s[i] : i \in 1..Len(s)}

\* The data rows of a table: every <tr> after the first, each as the
\* stripped texts of its <td> cells.
DataRows(t) ==
    LET trs == IF t.trs = <<>> THEN <<>> ELSE Tail(t.trs)
    IN  [i \in 1..Len(trs) |-> [j \in 1..Len(trs[i]) |-> Strip(trs[i][j])]]

RECURSIVE MaxWidth(_)
MaxWidth(rows) ==
    IF rows = <<>> THEN 0
    ELSE LET w == MaxWidth(Tail(rows))
         IN  IF Len(Head(rows)) > w THEN Len(Head(rows)) ELSE w

\* pd.DataFrame(table_data, columns=headers) raises ValueError when the
\* widest row does not have one cell per header.
FrameRaises(headers, rows) ==
    rows # <<>> /\ MaxWidth(rows) # Len(headers)

\* pd.DataFrame(table_data, columns=headers): shorter rows are padded
\* with None.
Frame(headers, rows) ==
    [cols |-> headers,
     recs |-> [i \in 1..Len(rows) |->
                 [j \in 1..Len(headers) |->
                    IF j <= Len(rows[i]) THEN Text(rows[i][j]) ELSE Null]]]

\* pd.to_numeric(value, errors='coerce') on one cell: a numeral parses to
\* its value, anything else (other text, None) becomes NaN.
IsNumeral(s) == s # <<>> /\ \A i \in 1..Len(s) : s[i] \in Digits

RECURSIVE NumeralValue(_)
NumeralValue(s) ==
    IF s = <<>> THEN 0
    ELSE 10 * NumeralValue(SubSeq(s, 1, Len(s) - 1)) + DigitVal(s[Len(s)])

ToNumeric(cell) ==
    CASE cell.kind = "num" -> cell
      [] cell.kind = "null" -> Null
      [] OTHER -> IF IsNumeral(Strip(cell.text))
                  THEN Num(NumeralValue(Strip(cell.text)))
                  ELSE Null

\* d[c] = pd.to_numeric(d[c], errors='coerce')
CoerceColumn(d, c) ==
    LET k == ColumnIndex(d, c)
    IN  [d EXCEPT !.recs =
            [i \in 1..Len(d.recs) |-> [d.recs[i] EXCEPT ![k] = ToNumeric(@)]]]

\* str(cell), as row.astype(str) renders it.
AsStr(cell) ==
    CASE cell.kind = "text" -> cell.text
      [] cell.kind = "null" -> <<"N", "o", "n", "e">>
      [] OTHER -> <<"n", "u", "m">>

\* d[mask]: the records of the set keep, in order, as a new DataFrame.
RECURSIVE SelectRecs(_, _)
SelectRecs(recs, keep) ==
    IF recs = <<>> THEN <<>>
    ELSE IF Head(recs) \in keep
         THEN <<Head(recs)>> \o SelectRecs(Tail(recs), keep)
         ELSE SelectRecs(Tail(recs), keep)

\* DataFrame.drop_duplicates(): a record equal in every column to an
\* earlier one is removed, the first occurrence stays.
RECURSIVE DropDuplicates(_)
DropDuplicates(recs) ==
    IF recs = <<>> THEN <<>>
    ELSE LET front == SubSeq(recs, 1, Len(recs) - 1)
             last == recs[Len(recs)]
         IN  IF last \in Range(front)
             THEN DropDuplicates(front)
             ELSE Append(DropDuplicates(front), last)

\* df.iloc[:, :-1]
AllButLastColumn(d) ==
    [cols |-> SubSeq(d.cols, 1, Len(d.cols) - 1),
     recs |-> [i \in 1..Len(d.recs) |->
                 SubSeq(d.recs[i], 1, Len(d.cols) - 1)]]

\* A trimming that removes the last column as soon as there is one.
TrimWheneverColumns(d) == IF Len(d.cols) > 0 THEN AllButLastColumn(d) ELSE d

\* return df.iloc[:, :-1] if not df.empty else df
TrimLastColumn(d) == IF ~IsEmpty(d) THEN AllButLastColumn(d) ELSE d

\* A split that rounds the half up.
clean_column_ceil(value) == SubSeq(value, 1, (Len(value) + 1) \div 2)

\* clean_column: value[:len(value)//2]
clean_column(value) == SubSeq(value, 1, Len(value) \div 2)

---------------------------------------------------------------------------
(* The two scraping pipelines, from the parsed table to the DataFrame *)

\* fetch_epl_data after the table was found: raises when the frame cannot
\* be built.
EplRaises(t) == FrameRaises(t.ths, DataRows(t))

EplFrame(t) == TrimLastColumn(Frame(t.ths, DataRows(t)))

\* fetch_player_data after the table was found: raises when the frame
\* cannot be built (ValueError), when there is no Name column (KeyError)
\* or when a Name is None (TypeError in clean_column).
PlayerRaises(t) ==
    \/ FrameRaises(t.ths, DataRows(t))
    \/ "Name" \notin Range(t.ths)
    \/ LET f == Frame(t.ths, DataRows(t))
       IN  \E i \in 1..Len(f.recs) : f.recs[i][ColumnIndex(f, "Name")] = Null

\* df['Name'] = df['Name'].apply(clean_column)
SplitNames(f) ==
    LET k == ColumnIndex(f, "Name")
    IN  [f EXCEPT !.recs =
            [i \in 1..Len(f.recs) |->
               [f.recs[i] EXCEPT ![k] = Text(clean_column(@.text))]]]

PlayerFrame(t) ==
    LET split == SplitNames(Frame(t.ths, DataRows(t)))
    IN  [split EXCEPT !.recs = DropDuplicates(@)]

---------------------------------------------------------------------------
(* The pages the two URLs can serve *)

Fns == {"epl", "player"}

Options ==
    {"team_stats", "player_stats", "team_comparison", "player_comparison"}

\* main(): which memoized function an option calls.
FnOf(o) == IF o \in {"team_stats", "team_comparison"} THEN "epl" ELSE "player"

EplHeaders ==
    { <<>>,
      <<"Team", "Form">>,
      <<"Team", "Points", "Goals For", "Goals Against", "Form">> }

PlayerHeaders ==
    { <<"Name", "Goals">>,
      <<"Name", "Assists">>,
      <<"Name", "Goals", "Assists">>,
      <<"Player", "Goals">> }

\* The raw texts a <td> of a column can hold.
CellChoices(col) ==
    CASE col = "Team" -> {Ars}
      [] col \in {"Name", "Player"} -> {AB, ABA}
      [] col = "Points" -> {<<" ", "5">>, <<"x">>}
      [] col = "Goals" -> {<<"5">>, <<"0", "5">>}
      [] col = "Assists" -> {<<"7">>}
      [] col = "Goals For" -> {<<"3">>}
      [] col = "Goals Against" -> {<<"2">>}
      [] OTHER -> {<<"W">>}

\* Rows with one <td> per header.
RECURSIVE FullRows(_)
FullRows(h) ==
    IF h = <<>> THEN {<<>>}
    ELSE {<<c>> \o r : c \in CellChoices(Head(h)), r \in FullRows(Tail(h))}

\* A row of a single <td> (a note spanning the table).
RaggedRows(h) == IF Len(h) < 2 THEN {} ELSE {<<LionelMessiLionelMessi>>}

SeqsUpTo(S, n) == UNION {[1..k -> S] : k \in 0..n}

\* A table: its <th> texts and its <tr> rows, the first <tr> being the
\* header row (it has no <td>); a table may also have no <tr> at all.
TablesWith(h) ==
    {[found |-> TRUE, ths |-> h, trs |-> trs] :
        trs \in {<<>>} \cup
                {<< <<>> >> \o rows :
                    rows \in SeqsUpTo(FullRows(h) \cup RaggedRows(h), MaxRows)}}

EplTables == UNION {TablesWith(h) : h \in EplHeaders}

PlayerTables == UNION {TablesWith(h) : h \in PlayerHeaders}

TablesOf(f) == IF f = "epl" THEN EplTables ELSE PlayerTables

\* soup.find('table') is None
NoTable == [found |-> FALSE, ths |-> <<>>, trs |-> <<>>]

\* str(e) of the RequestException.
Causes == {"ConnectionError", "404 Client Error"}

\* What the server does with a GET: it answers (with a page or with an
\* error), or it never answers.
NetOutcomes == {"responds", "silent"}

SearchTerms == {<<>>, <<"R">>}

---------------------------------------------------------------------------
(* Diagnostics and the memoization layer *)

NoDiag == <<>>

\* st.error(f"Error fetching data: {e}")
FetchErrorPrefix == "Error fetching data: "

FetchErrorDiagnostic(e) == <<FetchErrorPrefix, e>>

\* A missing table reported with the message of the fetch failure.
NoTableAsFetchError(f) == <<FetchErrorPrefix, "">>

\* st.error("Could not find the ... table on the page.")
NoTableDiagnostic(f) ==
    IF f = "epl"
    THEN <<"Could not find the EPL table on the page.">>
    ELSE <<"Could not find the player stats table on the page.">>

NoEntry == [full |-> FALSE, df |-> EmptyDataFrame, diag |-> NoDiag]

\* A lookup that never finds the entry.
NeverCached(f) == FALSE

\* @st.cache_data: the function has no arguments, so the key is the
\* function alone.
IsCached(f) == cache[f].full

\* A store that keeps only non-empty results.
StoreNonEmpty(f, d, g) ==
    IF IsEmpty(d) THEN cache
    ELSE [cache EXCEPT ![f] = [full |-> TRUE, df |-> d, diag |-> g]]

\* @st.cache_data stores the returned value and the st elements the call
\* emitted, whatever the value is.
Store(f, d, g) == [cache EXCEPT ![f] = [full |-> TRUE, df |-> d, diag |-> g]]

---------------------------------------------------------------------------
(* The script *)

Init ==
    /\ pc = "idle"
    /\ option = "none"
    /\ cache = [f \in Fns |-> NoEntry]
    /\ net = "none"
    /\ nget = 0
    /\ path = "none"
    /\ table = NoTable
    /\ df = EmptyDataFrame
    /\ diag = NoDiag
    /\ shown = EmptyDataFrame

\* main() calls a memoized function whose result is cached: the body does
\* not run, the cached value (a copy) and the cached st.error come back.
fetch_cached(o) ==
    /\ pc = "idle"
    /\ IsCached(FnOf(o))
    /\ option' = o
    /\ pc' = "returned"
    /\ path' = "hit"
    /\ nget' = 0
    /\ df' = cache[FnOf(o)].df
    /\ diag' = cache[FnOf(o)].diag
    /\ UNCHANGED <<cache, net, table, shown>>

\* main() calls a memoized function with nothing cached: the body runs up
\* to requests.get(url), which has no timeout.
fetch_request(o, n) ==
    /\ pc = "idle"
    /\ ~IsCached(FnOf(o))
    /\ option' = o
    /\ pc' = "get"
    /\ nget' = 1
    /\ net' = n
    /\ UNCHANGED <<cache, path, table, df, diag, shown>>

\* requests.get / raise_for_status raised a RequestException.
fetch_failed(e) ==
    /\ pc = "get"
    /\ net = "responds"
    /\ pc' = "returned"
    /\ path' = "get_failed"
    /\ df' = EmptyDataFrame
    /\ diag' = FetchErrorDiagnostic(e)
    /\ cache' = Store(FnOf(option), EmptyDataFrame, FetchErrorDiagnostic(e))
    /\ UNCHANGED <<option, net, nget, table, shown>>

\* The page came back without a <table>.
fetch_no_table ==
    /\ pc = "get"
    /\ net = "responds"
    /\ pc' = "returned"
    /\ path' = "no_table"
    /\ df' = EmptyDataFrame
    /\ diag' = NoTableDiagnostic(FnOf(option))
    /\ cache' = Store(FnOf(option), EmptyDataFrame,
                      NoTableDiagnostic(FnOf(option)))
    /\ UNCHANGED <<option, net, nget, table, shown>>

\* fetch_epl_data on a page with a table.
fetch_epl_table(t) ==
    /\ pc = "get"
    /\ net = "responds"
    /\ FnOf(option) = "epl"
    /\ table' = t
    /\ IF EplRaises(t)
       THEN /\ pc' = "raised"
            /\ path' = "raised"
            /\ UNCHANGED <<cache, df>>
       ELSE /\ pc' = "returned"
            /\ path' = "table"
            /\ df' = EplFrame(t)
            /\ cache' = Store("epl", EplFrame(t), NoDiag)
    /\ UNCHANGED <<option, net, nget, diag, shown>>

\* fetch_player_data on a page with a table.
fetch_player_table(t) ==
    /\ pc = "get"
    /\ net = "responds"
    /\ FnOf(option) = "player"
    /\ table' = t
    /\ IF PlayerRaises(t)
       THEN /\ pc' = "raised"
            /\ path' = "raised"
            /\ UNCHANGED <<cache, df>>
       ELSE /\ pc' = "returned"
            /\ path' = "table"
            /\ df' = PlayerFrame(t)
            /\ cache' = Store("player", PlayerFrame(t), NoDiag)
    /\ UNCHANGED <<option, net, nget, diag, shown>>

\* The records a search term keeps: some cell, as lower-case text,
\* contains the lower-case term.
Matching(d, term) ==
    {r \in Range(d.recs) :
        \E j \in 1..Len(r) : Contains(Lower(AsStr(r[j])), Lower(term))}

\* display_team_stats(df): with a search term df is rebound to a filtered
\* copy, without one it stays the object main() passed in; Points is then
\* coerced in whatever df names.  Goals For / Goals Against are only read.
display_team_stats(term) ==
    /\ pc = "returned"
    /\ option = "team_stats"
    /\ ~IsEmpty(df)
    /\ LET local == IF term # <<>>
                    THEN [df EXCEPT !.recs = SelectRecs(@, Matching(df, term))]
                    ELSE df
           work == IF HasColumn(local, "Points")
                   THEN CoerceColumn(local, "Points")
                   ELSE local
       IN  /\ shown' = work
           /\ df' = IF term # <<>> THEN df ELSE work
           /\ pc' = IF HasColumn(local, "Points") /\ ~HasColumn(local, "Team")
                    THEN "raised" ELSE "shown"
    /\ UNCHANGED <<option, cache, net, nget, path, table, diag>>

\* display_player_stats(player_df): Goals is coerced in the object passed
\* in, and Assists too, inside the Goals branch.
display_player_stats ==
    /\ pc = "returned"
    /\ option = "player_stats"
    /\ ~IsEmpty(df)
    /\ LET goals == IF HasColumn(df, "Goals")
                    THEN CoerceColumn(df, "Goals")
                    ELSE df
           work == IF HasColumn(df, "Goals") /\ HasColumn(df, "Assists")
                   THEN CoerceColumn(goals, "Assists")
                   ELSE goals
       IN  /\ shown' = work
           /\ df' = work
    /\ pc' = "shown"
    /\ UNCHANGED <<option, cache, net, nget, path, table, diag>>

\* The values of a column, df[c].unique().
ColumnValues(d, c) == {d.recs[i][ColumnIndex(d, c)] : i \in 1..Len(d.recs)}

\* df[df[c].isin(selected)]
Selected(d, c, selected) ==
    [d EXCEPT !.recs =
        SelectRecs(@, {r \in Range(d.recs) : r[ColumnIndex(d, c)] \in selected})]

\* display_team_comparison(df): the selected teams go to a new DataFrame,
\* whose Points is coerced.
display_team_comparison ==
    /\ pc = "returned"
    /\ option = "team_comparison"
    /\ ~IsEmpty(df)
    /\ HasColumn(df, "Team")
    /\ \E selected \in SUBSET ColumnValues(df, "Team") :
          LET comparison_df == Selected(df, "Team", selected)
          IN  shown' = IF selected = {} THEN shown
                       ELSE IF HasColumn(comparison_df, "Points")
                            THEN CoerceColumn(comparison_df, "Points")
                            ELSE comparison_df
    /\ pc' = "shown"
    /\ UNCHANGED <<option, cache, net, nget, path, table, df, diag>>

\* display_player_comparison(player_df): the selected players go to a new
\* DataFrame, whose Goals and Assists are coerced one by one.
display_player_comparison ==
    /\ pc = "returned"
    /\ option = "player_comparison"
    /\ ~IsEmpty(df)
    /\ \E selected \in SUBSET ColumnValues(df, "Name") :
          LET comparison_df == Selected(df, "Name", selected)
              goals == IF HasColumn(comparison_df, "Goals")
                       THEN CoerceColumn(comparison_df, "Goals")
                       ELSE comparison_df
              work == IF HasColumn(comparison_df, "Assists")
                      THEN CoerceColumn(goals, "Assists")
                      ELSE goals
          IN  shown' = IF selected = {} THEN shown ELSE work
    /\ pc' = "shown"
    /\ UNCHANGED <<option, cache, net, nget, path, table, df, diag>>

\* The script run ends (with an empty DataFrame nothing is displayed) and
\* Streamlit waits for the next interaction; the cache stays.
rerun ==
    /\ \/ pc = "shown"
       \/ pc = "raised"
       \/ pc = "returned" /\ IsEmpty(df)
    /\ pc' = "idle"
    /\ option' = "none"
    /\ net' = "none"
    /\ nget' = 0
    /\ path' = "none"
    /\ table' = NoTable
    /\ df' = EmptyDataFrame
    /\ diag' = NoDiag
    /\ shown' = EmptyDataFrame
    /\ UNCHANGED cache

Next ==
    \/ \E o \in Options : fetch_cached(o)
    \/ \E o \in Options, n \in NetOutcomes : fetch_request(o, n)
    \/ \E e \in Causes : fetch_failed(e)
    \/ fetch_no_table
    \/ \E t \in EplTables : fetch_epl_table(t)
    \/ \E t \in PlayerTables : fetch_player_table(t)
    \/ \E term \in SearchTerms : display_team_stats(term)
    \/ display_player_stats
    \/ display_team_comparison
    \/ display_player_comparison
    \/ rerun

Spec == Init /\ [][Next]_vars

\* The script is the only thread and Streamlit runs it to its end: a step
\* that can be taken is taken.
FairSpec == Spec /\ WF_vars(Next)

---------------------------------------------------------------------------
(* Properties *)

NoTwoEqual(recs) ==
    \A i, j \in 1..Len(recs) : i # j => recs[i] # recs[j]

\* The DataFrame built from the table of the current run, before any
\* trimming, splitting or deduplication.
RawFrame == Frame(table.ths, DataRows(table))

FromEplTable == pc = "returned" /\ path = "table" /\ FnOf(option) = "epl"

FromPlayerTable ==
    pc = "returned" /\ path = "table" /\ FnOf(option) = "player"

\* C1: a failed GET returns the empty DataFrame with the fetch-error
\* diagnostic, a page without a table returns the empty DataFrame with a
\* diagnostic that is not the fetch-error one, whatever the cause of the
\* failure was.
C1_FailuresToldApart ==
    /\ (pc = "returned" /\ path = "get_failed") =>
          /\ df = EmptyDataFrame
          /\ diag # NoDiag
          /\ diag[1] = FetchErrorPrefix
          /\ \A f \in Fns : diag # NoTableDiagnostic(f)
    /\ (pc = "returned" /\ path = "no_table") =>
          /\ df = EmptyDataFrame
          /\ diag # NoDiag
          /\ diag[1] # FetchErrorPrefix

\* One function has reported a missing table while the cache holds the
\* other function's fetch failure.
C1_Witness ==
    /\ pc = "returned"
    /\ path = "no_table"
    /\ \E f \in Fns :
          /\ cache[f].full
          /\ cache[f].diag # NoDiag
          /\ cache[f].diag[1] = FetchErrorPrefix
          /\ cache[f].diag # diag

\* C2: no invocation of a fetch function ends by raising.
C2_NoExceptionCrosses == path # "raised"

\* C3: after display_player_stats has coerced Goals and Assists, no two
\* records of the player DataFrame are equal in every column.
C3_FinalPlayersDistinct ==
    (pc = "shown" /\ option = "player_stats") => NoTwoEqual(df.recs)

NumericColumns(o) ==
    IF FnOf(o) = "epl"
    THEN {"Points", "Goals For", "Goals Against"}
    ELSE {"Goals", "Assists"}

\* C4: in the DataFrame display_team_stats / display_player_stats worked
\* on, every designated numeric column that is present holds only numbers
\* and nulls.
C4_NumericColumnsCoerced ==
    (pc = "shown" /\ option \in {"team_stats", "player_stats"}) =>
        \A c \in NumericColumns(option) :
            HasColumn(shown, c) =>
                \A i \in 1..Len(shown.recs) :
                    shown.recs[i][ColumnIndex(shown, c)].kind # "text"

\* C5 as stated: fetch_epl_data removes the last column whenever the
\* DataFrame has at least one column, zero data rows included.
C5_TrimsWheneverColumns ==
    FromEplTable =>
        df = IF Len(RawFrame.cols) >= 1
             THEN AllButLastColumn(RawFrame)
             ELSE RawFrame

\* C5 amended: fetch_epl_data removes exactly the last column when the
\* DataFrame has at least one column and at least one data row, keeping
\* the other columns and all records in order; a DataFrame with no
\* column or no data row is returned as it is, header columns included.
C5_TrimsWhenDataExists ==
    FromEplTable =>
        LET n == Len(RawFrame.cols)
        IN  IF n >= 1 /\ Len(RawFrame.recs) >= 1
            THEN /\ df.cols = SubSeq(RawFrame.cols, 1, n - 1)
                 /\ Len(df.recs) = Len(RawFrame.recs)
                 /\ \A i \in 1..Len(df.recs) :
                       /\ Len(df.recs[i]) = n - 1
                       /\ \A j \in 1..(n - 1) :
                             df.recs[i][j] = RawFrame.recs[i][j]
            ELSE df = RawFrame

\* A standings table of five columns and two data rows came back with
\* its first four columns and both records.
C5_Witness ==
    /\ FromEplTable
    /\ Len(RawFrame.cols) = 5
    /\ Len(RawFrame.recs) = 2
    /\ df.cols = <<"Team", "Points", "Goals For", "Goals Against">>
    /\ Len(df.recs) = 2

\* C6: every record of the player table appears in the result with its
\* Name cut to its first floor(len/2) characters and its other cells
\* untouched, the result holds nothing else, and it holds no record twice
\* (the duplicates are removed after the split).
C6_NameSplitOnceBeforeDedup ==
    FromPlayerTable =>
        LET k == ColumnIndex(RawFrame, "Name")
            Repaired(r) ==
                [r EXCEPT ![k] =
                    Text(SubSeq(r[k].text, 1, Len(r[k].text) \div 2))]
        IN  /\ df.cols = RawFrame.cols
            /\ \A i \in 1..Len(RawFrame.recs) :
                  Repaired(RawFrame.recs[i]) \in Range(df.recs)
            /\ \A r \in Range(df.recs) :
                  \E i \in 1..Len(RawFrame.recs) :
                      r = Repaired(RawFrame.recs[i])
            /\ NoTwoEqual(df.recs)
            /\ \A i \in 1..Len(RawFrame.recs) :
                  /\ RawFrame.recs[i][k].text = LionelMessiLionelMessi =>
                        \E r \in Range(df.recs) : r[k] = Text(LionelMessi)
                  /\ RawFrame.recs[i][k].text = AB =>
                        \E r \in Range(df.recs) : r[k] = Text(<<"A">>)

\* Two rows that differ only in the second half of the Name ("AB",
\* "ABA") came back as one record.
C6_Witness ==
    /\ FromPlayerTable
    /\ Len(RawFrame.recs) = 2
    /\ RawFrame.recs[1] # RawFrame.recs[2]
    /\ Len(df.recs) = 1
    /\ df.recs[1][ColumnIndex(df, "Name")] = Text(<<"A">>)

\* C7: an invocation that finds its function cached performs no GET and
\* returns the cached DataFrame; one that does not performs one GET, no
\* further GET happens while it runs, what it returns is what is cached,
\* and a cached entry is never replaced.
C7_ReadThrough ==
    [][ /\ (pc = "idle" /\ pc' # "idle" /\ cache[FnOf(option')].full) =>
              /\ nget' = 0
              /\ pc' = "returned"
              /\ df' = cache[FnOf(option')].df
              /\ cache' = cache
        /\ (pc = "idle" /\ pc' # "idle" /\ ~cache[FnOf(option')].full) =>
              nget' = 1
        /\ (pc # "idle" /\ pc' # "idle") => nget' = nget
        /\ (pc = "get" /\ pc' = "returned") =>
              cache'[FnOf(option)] =
                  [full |-> TRUE, df |-> df', diag |-> diag']
        /\ \A f \in Fns : cache[f].full => cache'[f] = cache[f]
      ]_vars

\* A cache hit that returned a table's records without a GET.
C7_Witness ==
    /\ pc = "returned"
    /\ path = "hit"
    /\ nget = 0
    /\ ~IsEmpty(df)

\* C8: an invocation that has sent its GET eventually gets past it.
C8_EveryInvocationCompletes == (pc = "get") ~> (pc # "get")

\* C9: a display function leaves the DataFrame object it received as it
\* was.
C9_DisplayLeavesDatasetUnchanged ==
    [][(pc = "returned" /\ pc' \in {"shown", "raised"}) => df' = df]_vars

\* C10: a fetch failure or a missing table is cached as the empty
\* DataFrame, and from then on every invocation of that function returns
\* the empty DataFrame without a GET, the entry staying as it is.
C10_FailureMemoized ==
    [][ /\ (pc = "get" /\ pc' = "returned"
               /\ path' \in {"get_failed", "no_table"}) =>
              cache'[FnOf(option)] =
                  [full |-> TRUE, df |-> EmptyDataFrame, diag |-> diag']
        /\ \A f \in Fns :
              (cache[f].full /\ cache[f].df = EmptyDataFrame) =>
                  /\ cache'[f] = cache[f]
                  /\ (pc = "idle" /\ pc' # "idle" /\ FnOf(option') = f) =>
                        /\ nget' = 0
                        /\ pc' = "returned"
                        /\ df' = EmptyDataFrame
                        /\ diag' = cache[f].diag
      ]_vars

\* A later invocation got the cached fetch failure back: the empty
\* DataFrame and the fetch-error diagnostic, with no GET.
C10_Witness ==
    /\ pc = "returned"
    /\ path = "hit"
    /\ nget = 0
    /\ df = EmptyDataFrame
    /\ diag # NoDiag
    /\ diag[1] = FetchErrorPrefix

====
